---- MODULE Spec2Model ----
(***************************************************************************)
(* Model of the command action of lux (src/app/app.go): the Action closure *)
(* of New() and the per-target function download().  The extraction,       *)
(* download and JSON-encoding collaborators and the filesystem are the     *)
(* environment; every call made to them is recorded in a history variable. *)
(***************************************************************************)
EXTENDS Integers, Sequences, FiniteSets, TLC

\* ---------------------------------------------------------------- bounds
MaxCli == 1
MaxFileItems == 1
MaxItems == 2
MaxLen == 3
MaxFlagLen == 1

Targets == {"u1", "u2"}
Chars == {" ", "c"}

\* ---------------------------------------------------------------- helpers
SeqsUpTo(S, n) == UNION {[1..k -> S] : k \in 0..n}

Min(S) == CHOOSE m \in S : \A n \in S : m <= n

\* the nil error
Nil == <<>>

\* unicode.IsSpace restricted to the modelled alphabet
IsSpace(ch) == ch \in {" ", "\t", "\n", "\r"}

RECURSIVE TrimLeft(_)
TrimLeft(s) == IF s # <<>> /\ IsSpace(Head(s)) THEN TrimLeft(Tail(s)) ELSE s

RECURSIVE TrimRight(_)
TrimRight(s) ==
  IF s # <<>> /\ IsSpace(s[Len(s)]) THEN TrimRight(SubSeq(s, 1, Len(s) - 1)) ELSE s

\* variant of TrimSpace: trailing whitespace is kept
TrimSpace_LeftOnly(s) == TrimLeft(s)

\* strings.TrimSpace
TrimSpace(s) == TrimRight(TrimLeft(s))

\* error values, distinguished by where they arose
ErrOpen == <<"open">>
ErrTooFew == <<"too few arguments">>
ErrRead == <<"read">>
ExitOne == <<"exit", 1>>
ErrExtract(p) == <<"extract", p>>
ErrItem(p, k) == <<"item", p, k>>
ErrDownload(p, k) == <<"download", p, k>>
ErrEncode(p) == <<"encode", p>>

\* the results extractors.Extract may hand back for work-list position p:
\* a sequence of items, each carrying its Err field (Nil when valid)
ExtractData == SeqsUpTo({"ok", "bad"}, MaxItems)

ItemErr(d, p, k) == IF d[k] = "bad" THEN ErrItem(p, k) ELSE Nil

\* ---------------------------------------------------------------- state
VARIABLES
  cliArgs,      \* c.Args().Slice()
  fileFlag,     \* "none" (flag empty), "unopenable", "ok"
  fileItems,    \* what utils.ParseInputFile returns for the file
  cookieFlag,   \* c.String("cookie")
  fsKind,       \* filesystem entry named by the cookie flag: "absent", "unreadable", "readable"
  fsData,       \* contents of that entry when readable
  jsonFlag,     \* c.Bool("json")
  pc,           \* position in Action / download
  args,         \* local args
  cookie,       \* local cookie
  reqOptions,   \* sequence of option values handed to request.SetOptions
  isErr,        \* local isErr
  idx,          \* position of videoURL in args (0 before the loop)
  data,         \* download(): extracted data of the current target
  item,         \* download(): index of the current item
  errors,       \* download(): local errors
  err,          \* value returned by download() for the current target
  ret,          \* value returned by Action ("running" while it has not returned)
  calls,        \* history: collaborator calls, in order
  returned,     \* history: value returned by download() for each processed position
  diags,        \* history: diagnostics printed by the loop
  fsOps         \* history: filesystem operations, in order

vars == <<cliArgs, fileFlag, fileItems, cookieFlag, fsKind, fsData, jsonFlag, pc,
          args, cookie, reqOptions, isErr, idx, data, item, errors, err, ret,
          calls, returned, diags, fsOps>>

flags == <<cliArgs, fileFlag, fileItems, cookieFlag, fsKind, fsData, jsonFlag>>
hist == <<calls, returned, diags, fsOps>>

Init ==
  /\ cliArgs \in SeqsUpTo(Targets, MaxCli)
  /\ fileFlag \in {"none", "unopenable", "ok"}
  /\ fileItems \in IF fileFlag = "ok" THEN SeqsUpTo(Targets, MaxFileItems) ELSE {<<>>}
  /\ cookieFlag \in SeqsUpTo(Chars, MaxFlagLen)
  /\ fsKind \in IF cookieFlag = <<>> THEN {"absent"} ELSE {"absent", "unreadable", "readable"}
  /\ fsData \in IF fsKind = "readable" THEN SeqsUpTo(Chars, MaxLen) ELSE {<<>>}
  /\ jsonFlag \in BOOLEAN
  /\ pc = "start"
  /\ args = <<>>
  /\ cookie = <<>>
  /\ reqOptions = <<>>
  /\ isErr = FALSE
  /\ idx = 0
  /\ data = <<>>
  /\ item = 0
  /\ errors = <<>>
  /\ err = Nil
  /\ ret = <<"running">>
  /\ calls = <<>>
  /\ returned = <<>>
  /\ diags = <<>>
  /\ fsOps = <<>>

\* ---------------------------------------------------------------- Action
\* variant of AppendFileItems: the file's identifiers are put first
AppendFileItems_Prepend(a, f) == f \o a

\* line 216: args = append(args, fileItems...)
AppendFileItems(a, f) == a \o f

\* variant of ReadInput: a failed open is ignored and the run goes on with the
\* command-line identifiers
ReadInput_IgnoreOpenError ==
  /\ pc = "start"
  /\ IF fileFlag = "none"
       THEN /\ args' = cliArgs
            /\ UNCHANGED fsOps
       ELSE /\ fsOps' = Append(fsOps, "open")
            /\ args' = IF fileFlag = "unopenable" THEN cliArgs
                       ELSE AppendFileItems(cliArgs, fileItems)
  /\ pc' = "checkArgs"
  /\ UNCHANGED <<flags, cookie, reqOptions, isErr, idx, data, item, errors, err, ret,
                 calls, returned, diags>>

\* lines 202-217: take the command-line identifiers, append the file's
ReadInput ==
  /\ pc = "start"
  /\ IF fileFlag = "none"
       THEN /\ args' = cliArgs
            /\ pc' = "checkArgs"
            /\ UNCHANGED <<ret, fsOps>>
       ELSE /\ fsOps' = Append(fsOps, "open")
            /\ IF fileFlag = "unopenable"
                 THEN /\ ret' = ErrOpen
                      /\ pc' = "done"
                      /\ args' = cliArgs
                 ELSE /\ args' = AppendFileItems(cliArgs, fileItems)
                      /\ pc' = "checkArgs"
                      /\ UNCHANGED ret
  /\ UNCHANGED <<flags, cookie, reqOptions, isErr, idx, data, item, errors, err,
                 calls, returned, diags>>

\* variant of CheckArgs: the length check is missing
CheckArgs_NoCheck ==
  /\ pc = "checkArgs"
  /\ pc' = "cookie"
  /\ UNCHANGED <<flags, args, cookie, reqOptions, isErr, idx, data, item, errors, err, ret, hist>>

\* variant of CheckArgs: the cookie file is read before the length check
CheckArgs_CookieFirst ==
  /\ pc = "checkArgs"
  /\ IF cookieFlag # <<>> /\ fsKind = "unreadable"
       THEN /\ fsOps' = fsOps \o <<"stat", "read">>
            /\ ret' = ErrRead
            /\ pc' = "done"
       ELSE /\ UNCHANGED fsOps
            /\ IF Len(args) < 1
                 THEN ret' = ErrTooFew /\ pc' = "done"
                 ELSE pc' = "cookie" /\ UNCHANGED ret
  /\ UNCHANGED <<flags, args, cookie, reqOptions, isErr, idx, data, item, errors, err,
                 calls, returned, diags>>

\* lines 219-221
CheckArgs ==
  /\ pc = "checkArgs"
  /\ IF Len(args) < 1
       THEN ret' = ErrTooFew /\ pc' = "done"
       ELSE pc' = "cookie" /\ UNCHANGED ret
  /\ UNCHANGED <<flags, args, cookie, reqOptions, isErr, idx, data, item, errors, err, hist>>

\* variant of ResolveCookie: a failed read is ignored and the flag value kept
ResolveCookie_IgnoreReadError ==
  /\ pc = "cookie"
  /\ IF cookieFlag = <<>>
       THEN /\ cookie' = cookieFlag
            /\ UNCHANGED fsOps
       ELSE IF fsKind = "absent"
              THEN /\ fsOps' = Append(fsOps, "stat")
                   /\ cookie' = cookieFlag
              ELSE /\ fsOps' = fsOps \o <<"stat", "read">>
                   /\ cookie' = IF fsKind = "unreadable" THEN cookieFlag ELSE TrimSpace(fsData)
  /\ pc' = "setOptions"
  /\ UNCHANGED <<flags, args, reqOptions, isErr, idx, data, item, errors, err, ret,
                 calls, returned, diags>>

\* lines 223-234
ResolveCookie ==
  /\ pc = "cookie"
  /\ IF cookieFlag = <<>>
       THEN /\ cookie' = cookieFlag
            /\ pc' = "setOptions"
            /\ UNCHANGED <<ret, fsOps>>
       ELSE IF fsKind = "absent"
              THEN /\ fsOps' = Append(fsOps, "stat")
                   /\ cookie' = cookieFlag
                   /\ pc' = "setOptions"
                   /\ UNCHANGED ret
              ELSE /\ fsOps' = fsOps \o <<"stat", "read">>
                   /\ IF fsKind = "unreadable"
                        THEN /\ ret' = ErrRead
                             /\ pc' = "done"
                             /\ cookie' = cookieFlag
                        ELSE /\ cookie' = TrimSpace(fsData)
                             /\ pc' = "setOptions"
                             /\ UNCHANGED ret
  /\ UNCHANGED <<flags, args, reqOptions, isErr, idx, data, item, errors, err,
                 calls, returned, diags>>

\* lines 236-243
SetOptions ==
  /\ pc = "setOptions"
  /\ reqOptions' = Append(reqOptions, [Cookie |-> cookie])
  /\ pc' = "loop"
  /\ UNCHANGED <<flags, args, cookie, isErr, idx, data, item, errors, err, ret, hist>>

\* variant of ActionReturn: the verdict is not consulted
ActionReturn_AlwaysNil(e) == Nil

\* lines 257-260: the value Action returns after the loop
ActionReturn(e) == IF e THEN ExitOne ELSE Nil

\* variant of LoopNext: the loop is left after the first failing target
LoopNext_AbortOnError ==
  /\ pc = "loop"
  /\ IF idx < Len(args) /\ ~isErr
       THEN /\ idx' = idx + 1
            /\ pc' = "extract"
            /\ UNCHANGED ret
       ELSE /\ ret' = ActionReturn(isErr)
            /\ pc' = "done"
            /\ UNCHANGED idx
  /\ UNCHANGED <<flags, args, cookie, reqOptions, isErr, data, item, errors, err, hist>>

\* line 246: next videoURL of the range loop, or lines 257-260 after the last
LoopNext ==
  /\ pc = "loop"
  /\ IF idx < Len(args)
       THEN /\ idx' = idx + 1
            /\ pc' = "extract"
            /\ UNCHANGED ret
       ELSE /\ ret' = ActionReturn(isErr)
            /\ pc' = "done"
            /\ UNCHANGED idx
  /\ UNCHANGED <<flags, args, cookie, reqOptions, isErr, data, item, errors, err, hist>>

\* variant of Report: the diagnostic is printed but the verdict is not marked
Report_VerdictNotMarked ==
  /\ pc = "report"
  /\ returned' = Append(returned, err)
  /\ IF err # Nil
       THEN diags' = Append(diags, [pos |-> idx, target |-> args[idx], err |-> err])
       ELSE UNCHANGED diags
  /\ pc' = "loop"
  /\ UNCHANGED <<flags, args, cookie, reqOptions, isErr, idx, data, item, errors, err, ret,
                 calls, fsOps>>

\* variant of Report: the verdict is marked but no diagnostic is printed
Report_NoDiagnostic ==
  /\ pc = "report"
  /\ returned' = Append(returned, err)
  /\ isErr' = (isErr \/ err # Nil)
  /\ pc' = "loop"
  /\ UNCHANGED <<flags, args, cookie, reqOptions, idx, data, item, errors, err, ret,
                 calls, diags, fsOps>>

\* variant of Report: a line is printed for every target, failed or not
Report_AlwaysDiagnose ==
  /\ pc = "report"
  /\ returned' = Append(returned, err)
  /\ diags' = Append(diags, [pos |-> idx, target |-> args[idx], err |-> err])
  /\ isErr' = (isErr \/ err # Nil)
  /\ pc' = "loop"
  /\ UNCHANGED <<flags, args, cookie, reqOptions, idx, data, item, errors, err, ret,
                 calls, fsOps>>

\* variant of Report: the verdict is overwritten with the last outcome
Report_VerdictOverwritten ==
  /\ pc = "report"
  /\ returned' = Append(returned, err)
  /\ IF err # Nil
       THEN diags' = Append(diags, [pos |-> idx, target |-> args[idx], err |-> err])
       ELSE UNCHANGED diags
  /\ isErr' = (err # Nil)
  /\ pc' = "loop"
  /\ UNCHANGED <<flags, args, cookie, reqOptions, idx, data, item, errors, err, ret,
                 calls, fsOps>>

\* lines 247-255: download() has returned err for args[idx]
Report ==
  /\ pc = "report"
  /\ returned' = Append(returned, err)
  /\ IF err # Nil
       THEN /\ diags' = Append(diags, [pos |-> idx, target |-> args[idx], err |-> err])
            /\ isErr' = TRUE
       ELSE UNCHANGED <<diags, isErr>>
  /\ pc' = "loop"
  /\ UNCHANGED <<flags, args, cookie, reqOptions, idx, data, item, errors, err, ret,
                 calls, fsOps>>

\* ---------------------------------------------------------------- download
\* one entry of the call history: the collaborator called, for which work-list
\* position and item, with which cookie option, what it returned
Call(op, p, k, ck, r, d) ==
  [op |-> op, pos |-> p, target |-> args[p], item |-> k, cookie |-> ck, res |-> r, data |-> d]

\* the Cookie option download() hands to extractors.Extract (line 277)
ExtractCookie == cookieFlag

\* variant of Extract: the error of the extraction call is dropped and the
\* (empty) data processed as if extraction had succeeded
Extract_ErrorDropped ==
  /\ pc = "extract"
  /\ \/ /\ data' = <<>>
        /\ calls' = Append(calls, Call("extract", idx, 0, ExtractCookie, ErrExtract(idx), <<>>))
     \/ /\ \E d \in ExtractData : data' = d
        /\ calls' = Append(calls, Call("extract", idx, 0, ExtractCookie, Nil, data'))
  /\ err' = Nil
  /\ pc' = IF jsonFlag THEN "encode" ELSE "items"
  /\ item' = 0
  /\ errors' = <<>>
  /\ UNCHANGED <<flags, args, cookie, reqOptions, isErr, idx, ret, returned, diags, fsOps>>

\* variant of Extract: the request options are installed again for each target,
\* from the flag value
Extract_SetsOptions ==
  /\ pc = "extract"
  /\ \/ /\ err' = ErrExtract(idx)
        /\ data' = <<>>
        /\ pc' = "report"
     \/ /\ \E d \in ExtractData : data' = d
        /\ err' = Nil
        /\ pc' = IF jsonFlag THEN "encode" ELSE "items"
  /\ calls' = Append(calls, Call("extract", idx, 0, ExtractCookie, err', data'))
  /\ reqOptions' = Append(reqOptions, [Cookie |-> ExtractCookie])
  /\ item' = 0
  /\ errors' = <<>>
  /\ UNCHANGED <<flags, args, cookie, isErr, idx, ret, returned, diags, fsOps>>

\* lines 270-286
Extract ==
  /\ pc = "extract"
  /\ \/ /\ err' = ErrExtract(idx)
        /\ data' = <<>>
        /\ pc' = "report"
     \/ /\ \E d \in ExtractData : data' = d
        /\ err' = Nil
        /\ pc' = IF jsonFlag THEN "encode" ELSE "items"
  /\ calls' = Append(calls, Call("extract", idx, 0, ExtractCookie, err', data'))
  /\ item' = 0
  /\ errors' = <<>>
  /\ UNCHANGED <<flags, args, cookie, reqOptions, isErr, idx, ret, returned, diags, fsOps>>

\* variant of Encode: the error of the encoder is not returned
Encode_ErrorDropped ==
  /\ pc = "encode"
  /\ \E r \in {Nil, ErrEncode(idx)} :
       calls' = Append(calls, Call("encode", idx, 0, <<>>, r, data))
  /\ err' = Nil
  /\ pc' = "report"
  /\ UNCHANGED <<flags, args, cookie, reqOptions, isErr, idx, data, item, errors, ret,
                 returned, diags, fsOps>>

\* variant of Encode: the items' extraction-time errors are looked at after
\* a successful serialization
Encode_InspectsItems ==
  /\ pc = "encode"
  /\ \E r \in {Nil, ErrEncode(idx)} :
       /\ calls' = Append(calls, Call("encode", idx, 0, <<>>, r, data))
       /\ err' = IF r # Nil THEN r
                 ELSE IF \E k \in 1..Len(data) : data[k] = "bad"
                        THEN ItemErr(data, idx, Min({k \in 1..Len(data) : data[k] = "bad"}))
                        ELSE Nil
  /\ pc' = "report"
  /\ UNCHANGED <<flags, args, cookie, reqOptions, isErr, idx, data, item, errors, ret,
                 returned, diags, fsOps>>

\* lines 288-297
Encode ==
  /\ pc = "encode"
  /\ \/ err' = ErrEncode(idx)
     \/ err' = Nil
  /\ calls' = Append(calls, Call("encode", idx, 0, <<>>, err', data))
  /\ pc' = "report"
  /\ UNCHANGED <<flags, args, cookie, reqOptions, isErr, idx, data, item, errors, ret,
                 returned, diags, fsOps>>

\* variant of NextItem: the item loop is left at the first failing item
NextItem_BreakOnFailure ==
  /\ pc = "items"
  /\ item < Len(data)
  /\ IF ItemErr(data, idx, item + 1) # Nil
       THEN /\ errors' = Append(errors, ItemErr(data, idx, item + 1))
            /\ item' = Len(data)
            /\ UNCHANGED calls
       ELSE \E r \in {Nil, ErrDownload(idx, item + 1)} :
              /\ calls' = Append(calls, Call("download", idx, item + 1, <<>>, r, <<>>))
              /\ errors' = IF r # Nil THEN Append(errors, r) ELSE errors
              /\ item' = IF r # Nil THEN Len(data) ELSE item + 1
  /\ UNCHANGED <<flags, pc, args, cookie, reqOptions, isErr, idx, data, err, ret,
                 returned, diags, fsOps>>

\* variant of NextItem: a failed download is tried a second time
NextItem_RetryOnce ==
  /\ pc = "items"
  /\ item < Len(data)
  /\ item' = item + 1
  /\ IF ItemErr(data, idx, item + 1) # Nil
       THEN /\ errors' = Append(errors, ItemErr(data, idx, item + 1))
            /\ UNCHANGED calls
       ELSE \E r \in {Nil, ErrDownload(idx, item + 1)} :
              IF r = Nil
                THEN /\ calls' = Append(calls, Call("download", idx, item + 1, <<>>, r, <<>>))
                     /\ UNCHANGED errors
                ELSE \E r2 \in {Nil, ErrDownload(idx, item + 1)} :
                       /\ calls' = calls \o <<Call("download", idx, item + 1, <<>>, r, <<>>),
                                               Call("download", idx, item + 1, <<>>, r2, <<>>)>>
                       /\ errors' = IF r2 # Nil THEN Append(errors, r2) ELSE errors
  /\ UNCHANGED <<flags, pc, args, cookie, reqOptions, isErr, idx, data, err, ret,
                 returned, diags, fsOps>>

\* lines 318-328: one iteration of the range loop over data
NextItem ==
  /\ pc = "items"
  /\ item < Len(data)
  /\ item' = item + 1
  /\ IF ItemErr(data, idx, item + 1) # Nil
       THEN /\ errors' = Append(errors, ItemErr(data, idx, item + 1))
            /\ UNCHANGED calls
       ELSE \E r \in {Nil, ErrDownload(idx, item + 1)} :
              /\ calls' = Append(calls, Call("download", idx, item + 1, <<>>, r, <<>>))
              /\ errors' = IF r # Nil THEN Append(errors, r) ELSE errors
  /\ UNCHANGED <<flags, pc, args, cookie, reqOptions, isErr, idx, data, err, ret,
                 returned, diags, fsOps>>

\* variant of FirstError: the most recent error is returned
FirstError_Last(errs) == IF Len(errs) # 0 THEN errs[Len(errs)] ELSE Nil

\* lines 329-332: the value download() returns after the item loop
FirstError(errs) == IF Len(errs) # 0 THEN errs[1] ELSE Nil

\* lines 329-332
EndItems ==
  /\ pc = "items"
  /\ item = Len(data)
  /\ err' = FirstError(errors)
  /\ pc' = "report"
  /\ UNCHANGED <<flags, args, cookie, reqOptions, isErr, idx, data, item, errors, ret, hist>>

Next ==
  \/ ReadInput
  \/ CheckArgs
  \/ ResolveCookie
  \/ SetOptions
  \/ LoopNext
  \/ Extract
  \/ Encode
  \/ NextItem
  \/ EndItems
  \/ Report

Spec == Init /\ [][Next]_vars

\* the action is one sequential goroutine and every collaborator call returns:
\* a step that can be taken is taken
FairSpec == Spec /\ WF_vars(Next)

\* ---------------------------------------------------------------- properties
\* the run ended in the batch loop's own return (no fatal precondition failure)
BatchDone == pc = "done" /\ ret \in {Nil, ExitOne}

\* the merged work list, as the inputs determine it
WorkList == cliArgs \o fileItems

IsPrefix(s, t) == Len(s) <= Len(t) /\ SubSeq(t, 1, Len(s)) = s

ExtractCalls == SelectSeq(calls, LAMBDA c : c.op = "extract")
DownloadCalls == SelectSeq(calls, LAMBDA c : c.op = "download")

\* the download calls made for work-list position p, in call order
DownloadsOf(p) == SelectSeq(calls, LAMBDA c : c.op = "download" /\ c.pos = p)

\* every collaborator call so far succeeded and no item carried an error
AllSuccess ==
  \A i \in 1..Len(calls) :
    /\ calls[i].res = Nil
    /\ \A k \in 1..Len(calls[i].data) : calls[i].data[k] = "ok"

\* C1: after a batch over a non-empty work list that passed the precondition
\* checks, the exit status is 1 exactly when some target's download() returned
\* an error and 0 (nil) exactly when every one returned nil; with all-success
\* collaborators the status is 0 and no failure is recorded.
C1_ExitStatus ==
  BatchDone =>
    /\ Len(returned) = Len(args)
    /\ Len(args) >= 1
    /\ (ret = ExitOne <=> \E p \in 1..Len(returned) : returned[p] # Nil)
    /\ (ret = Nil <=> \A p \in 1..Len(returned) : returned[p] = Nil)
    /\ (AllSuccess => ret = Nil /\ diags = <<>> /\ ~isErr)

C1_Witness ==
  /\ BatchDone
  /\ Len(args) = 2
  /\ returned[1] # Nil
  /\ returned[2] = Nil
  /\ ret = ExitOne

\* C2: the batch never aborts early: the extraction collaborator is called
\* exactly once per work-list position, in list order, duplicates included,
\* whatever the outcome of earlier targets.
C2_ExtractEveryTarget ==
  /\ \A i \in 1..Len(ExtractCalls) :
       ExtractCalls[i].pos = i /\ ExtractCalls[i].target = WorkList[i]
  /\ Len(ExtractCalls) <= Len(WorkList)
  /\ (BatchDone => Len(ExtractCalls) = Len(WorkList))

C2_Witness ==
  /\ BatchDone
  /\ Len(args) = 2
  /\ args[1] = args[2]
  /\ returned[1] # Nil
  /\ Len(ExtractCalls) = 2

\* C3: when the extraction call for a target fails, no download call is made
\* for that target, the target's outcome is that extraction error, and if it
\* is the only failing target exactly that one is reported and the status is 1.
C3_PreparationFailure ==
  \A i \in 1..Len(calls) :
    (calls[i].op = "extract" /\ calls[i].res # Nil) =>
      LET p == calls[i].pos IN
        /\ DownloadsOf(p) = <<>>
        /\ (Len(returned) >= p => returned[p] = calls[i].res)
        /\ (BatchDone /\ (\A q \in 1..Len(returned) : q # p => returned[q] = Nil)
              => /\ diags = <<[pos |-> p, target |-> WorkList[p], err |-> calls[i].res]>>
                 /\ ret = ExitOne)

C3_Witness ==
  /\ BatchDone
  /\ ~jsonFlag
  /\ Len(args) = 2
  /\ ExtractCalls[1].res # Nil
  /\ returned[2] = Nil
  /\ DownloadsOf(2) # <<>>
  /\ Len(diags) = 1

\* the indices of the items of d that carry no extraction-time error, in order
ValidItems(d) == SelectSeq([k \in 1..Len(d) |-> k], LAMBDA k : d[k] = "ok")

\* the item indices of the download calls made for position p, in call order
DownloadedItems(p) == [j \in 1..Len(DownloadsOf(p)) |-> DownloadsOf(p)[j].item]

\* C4: in download mode, for a target whose extraction succeeded, the items
\* without an extraction-time error are passed to the download collaborator
\* exactly once each, in order, the items with one are never passed, and a
\* failure on one item does not stop the later items from being attempted.
C4_EveryItemAttempted ==
  ~jsonFlag =>
    \A i \in 1..Len(ExtractCalls) :
      ExtractCalls[i].res = Nil =>
        /\ IsPrefix(DownloadedItems(i), ValidItems(ExtractCalls[i].data))
        /\ (Len(returned) >= i => DownloadedItems(i) = ValidItems(ExtractCalls[i].data))

C4_Witness ==
  /\ ~jsonFlag
  /\ Len(returned) >= 1
  /\ ExtractCalls[1].data = <<"ok", "ok">>
  /\ Len(DownloadsOf(1)) = 2
  /\ DownloadsOf(1)[1].res # Nil
  /\ DownloadsOf(1)[2].res = Nil

\* the failure of item k of position p: the error the item carries, else the
\* error its download call returned, else Nil
ItemFailure(p, k) ==
  IF ExtractCalls[p].data[k] = "bad" THEN ErrItem(p, k)
  ELSE LET S == {j \in 1..Len(calls) :
                   calls[j].op = "download" /\ calls[j].pos = p /\ calls[j].item = k}
       IN IF S = {} THEN Nil ELSE calls[CHOOSE j \in S : TRUE].res

FailingItems(p) == {k \in 1..Len(ExtractCalls[p].data) : ItemFailure(p, k) # Nil}

\* C5: in download mode the error returned for a target is the error of the
\* lowest-index failing item (carrying an error, or its download failing);
\* the outcome is success exactly when no item failed.
C5_FirstErrorWins ==
  ~jsonFlag =>
    \A p \in 1..Len(returned) :
      ExtractCalls[p].res = Nil =>
        /\ (returned[p] = Nil <=> FailingItems(p) = {})
        /\ (FailingItems(p) # {} => returned[p] = ItemFailure(p, Min(FailingItems(p))))

C5_Witness ==
  /\ ~jsonFlag
  /\ Len(returned) >= 1
  /\ ExtractCalls[1].data = <<"ok", "bad">>
  /\ FailingItems(1) = {1, 2}
  /\ returned[1] = ErrDownload(1, 1)

\* position p had a preparation failure
PreparationFailed(p) == ExtractCalls[p].res # Nil

\* position p had an item failure: an item carrying an error, or a failed download
ItemFailed(p) ==
  \/ \E k \in 1..Len(ExtractCalls[p].data) : ExtractCalls[p].data[k] = "bad"
  \/ \E j \in 1..Len(DownloadsOf(p)) : DownloadsOf(p)[j].res # Nil

Diagnosed(p) == \E j \in 1..Len(diags) : diags[j].pos = p /\ diags[j].target = WorkList[p]

\* C6 (as stated): any preparation failure or item failure of any target, in
\* any output mode, makes the exit status 1 and a diagnostic for that target
\* is emitted.
C6_AsStated ==
  BatchDone =>
    \A p \in 1..Len(ExtractCalls) :
      (PreparationFailed(p) \/ ItemFailed(p)) => ret = ExitOne /\ Diagnosed(p)

\* C6 (amended): any preparation failure in any output mode, and any item
\* failure in download mode, makes the exit status 1 and a diagnostic for
\* that target is emitted.
C6_NoFailureSwallowed ==
  BatchDone =>
    \A p \in 1..Len(ExtractCalls) :
      (PreparationFailed(p) \/ (~jsonFlag /\ ItemFailed(p))) => ret = ExitOne /\ Diagnosed(p)

C6_Witness ==
  /\ BatchDone
  /\ ~jsonFlag
  /\ Len(args) = 2
  /\ ~PreparationFailed(1)
  /\ ItemFailed(1)
  /\ returned[2] = Nil
  /\ Diagnosed(1)

\* C7: an empty merged work list is a fatal error raised before request
\* options are set and before any collaborator call; it is never a success.
C7_EmptyWorkList ==
  (fileFlag # "unopenable" /\ WorkList = <<>>) =>
    /\ reqOptions = <<>>
    /\ calls = <<>>
    /\ ret \notin {Nil, ExitOne}
    /\ pc \in {"start", "checkArgs", "done"}
    /\ (pc = "done" => ret = ErrTooFew)

C7_Witness ==
  /\ pc = "done"
  /\ fileFlag = "ok"
  /\ WorkList = <<>>
  /\ ret = ErrTooFew

\* C8: when the cookie value names an existing entry whose read fails, the
\* run aborts with that error before any target is processed: no extraction
\* or download call is made and no per-target diagnostic is emitted.
C8_CookieReadFailure ==
  (cookieFlag # <<>> /\ fsKind = "unreadable") =>
    /\ calls = <<>>
    /\ diags = <<>>
    /\ returned = <<>>
    /\ idx = 0
    /\ (pc = "done" /\ ret \notin {ErrOpen, ErrTooFew} => ret = ErrRead)
    /\ pc \in {"start", "checkArgs", "cookie", "done"}

C8_Witness ==
  /\ pc = "done"
  /\ ret = ErrRead
  /\ Len(args) >= 1
  /\ fsOps[Len(fsOps)] = "read"

\* r is s without its leading and trailing whitespace
IsStripped(r, s) ==
  \E i \in 1..Len(s) + 1 : \E j \in 0..Len(s) :
    /\ i <= j + 1
    /\ r = SubSeq(s, i, j)
    /\ \A k \in 1..Len(s) : (k < i \/ k > j) => IsSpace(s[k])
    /\ (r # <<>> => ~IsSpace(r[1]) /\ ~IsSpace(r[Len(r)]))

\* C9: the resolved cookie is the empty string for an empty value, the
\* file's contents without leading/trailing whitespace when the value names
\* an existing readable entry, and the value itself when it names no existing
\* entry; the resolved value is the one installed in the request options.
C9_CookieResolution ==
  \A i \in 1..Len(reqOptions) :
    LET r == reqOptions[i].Cookie IN
      /\ r = cookie
      /\ (cookieFlag = <<>> => r = <<>>)
      /\ (cookieFlag # <<>> /\ fsKind = "readable" => IsStripped(r, fsData))
      /\ (cookieFlag # <<>> /\ fsKind = "absent" => r = cookieFlag)

C9_Witness ==
  /\ reqOptions # <<>>
  /\ cookieFlag = <<"c">>
  /\ fsKind = "readable"
  /\ fsData = <<" ", "c", " ">>
  /\ reqOptions[1].Cookie = <<"c">>

\* C10: the cookie handed to the extraction collaborator for every target is
\* the resolved cookie literal, the same value placed in the request options,
\* never the unresolved flag value.
C10_SameCookieEverywhere ==
  \A i \in 1..Len(ExtractCalls) :
    /\ reqOptions # <<>>
    /\ ExtractCalls[i].cookie = reqOptions[1].Cookie

EncodeCalls == SelectSeq(calls, LAMBDA c : c.op = "encode")

\* the work-list positions whose extraction call succeeded, in call order
ExtractedPositions ==
  LET ok == SelectSeq(ExtractCalls, LAMBDA c : c.res = Nil)
  IN [j \in 1..Len(ok) |-> ok[j].pos]

\* C11: in JSON mode the download collaborator is never called; the raw
\* extraction result of each target whose extraction succeeded is serialized
\* once, in target order; a serialization failure makes the target fail like a
\* download failure: diagnostic, exit status 1, remaining targets processed.
C11_JsonMode ==
  jsonFlag =>
    /\ DownloadCalls = <<>>
    /\ IsPrefix([j \in 1..Len(EncodeCalls) |-> EncodeCalls[j].pos], ExtractedPositions)
    /\ \A j \in 1..Len(EncodeCalls) :
         /\ EncodeCalls[j].data = ExtractCalls[EncodeCalls[j].pos].data
         /\ (EncodeCalls[j].res # Nil /\ Len(returned) >= EncodeCalls[j].pos =>
               /\ returned[EncodeCalls[j].pos] = EncodeCalls[j].res
               /\ Diagnosed(EncodeCalls[j].pos)
               /\ isErr)
    /\ (BatchDone =>
          /\ [j \in 1..Len(EncodeCalls) |-> EncodeCalls[j].pos] = ExtractedPositions
          /\ Len(ExtractCalls) = Len(WorkList)
          /\ ((\E j \in 1..Len(EncodeCalls) : EncodeCalls[j].res # Nil) => ret = ExitOne))

C11_Witness ==
  /\ BatchDone
  /\ jsonFlag
  /\ Len(args) = 2
  /\ Len(EncodeCalls) = 2
  /\ EncodeCalls[1].res # Nil
  /\ EncodeCalls[2].res = Nil
  /\ EncodeCalls[1].data # <<>>
  /\ ret = ExitOne

\* C12: processing is strictly sequential and ordered: a collaborator call for
\* a position is made only after every earlier position's pipeline has
\* returned and its diagnostic, if any, has been emitted; within a target the
\* calls follow item order; the diagnostics are a subsequence of the work list
\* in input order.
C12_Sequential ==
  /\ \A i \in 1..Len(calls) :
       /\ calls[i].pos <= Len(returned) + 1
       /\ \A q \in 1..(calls[i].pos - 1) :
            q <= Len(returned) /\ (returned[q] # Nil => Diagnosed(q))
       /\ \A j \in 1..(i - 1) :
            \/ calls[j].pos < calls[i].pos
            \/ /\ calls[j].pos = calls[i].pos
               /\ calls[j].op \in {"extract", "download"}
               /\ calls[i].op \in {"encode", "download"}
               /\ calls[j].item < calls[i].item \/ calls[j].op = "extract"
  /\ \A j \in 1..Len(diags) :
       /\ diags[j].target = WorkList[diags[j].pos]
       /\ \A h \in 1..(j - 1) : diags[h].pos < diags[j].pos

C12_Witness ==
  /\ BatchDone
  /\ ~jsonFlag
  /\ Len(args) = 2
  /\ Len(diags) = 2
  /\ Len(DownloadsOf(1)) = 2
  /\ Len(DownloadsOf(2)) = 1

\* the diagnostics the loop owes for the positions processed so far: one per
\* position whose pipeline returned an error, in order
RECURSIVE ExpectedDiags(_)
ExpectedDiags(n) ==
  IF n = 0 THEN <<>>
  ELSE IF returned[n] # Nil
         THEN Append(ExpectedDiags(n - 1),
                     [pos |-> n, target |-> WorkList[n], err |-> returned[n]])
         ELSE ExpectedDiags(n - 1)

\* C13: a per-target diagnostic is emitted for exactly the positions whose
\* pipeline returned an error, one per failing position, naming that target
\* and its error; a succeeding target produces no diagnostic.
C13_DiagnosticsExact == diags = ExpectedDiags(Len(returned))

C13_Witness ==
  /\ BatchDone
  /\ Len(args) = 2
  /\ args[1] = args[2]
  /\ returned[1] = Nil
  /\ returned[2] # Nil
  /\ Len(diags) = 1
  /\ diags[1].pos = 2

\* C14: the work list is the command-line identifiers in their order followed
\* by the identifiers the range-expansion collaborator returned, in its order;
\* nothing is dropped, reordered or deduplicated; without an input file the
\* work list is the command-line identifiers.
C14_WorkListOrder ==
  (pc # "start" /\ ret # ErrOpen) =>
    /\ Len(args) = Len(cliArgs) + Len(fileItems)
    /\ \A i \in 1..Len(cliArgs) : args[i] = cliArgs[i]
    /\ \A j \in 1..Len(fileItems) : args[Len(cliArgs) + j] = fileItems[j]
    /\ (fileFlag = "none" => args = cliArgs)
    /\ \A i \in 1..Len(ExtractCalls) : ExtractCalls[i].target = args[i]

C14_Witness ==
  /\ BatchDone
  /\ fileFlag = "ok"
  /\ cliArgs = <<"u2">>
  /\ fileItems = <<"u1">>
  /\ ExtractCalls[1].target = "u2"
  /\ ExtractCalls[2].target = "u1"

\* C15: when an input file is given and cannot be opened the run fails with
\* that error even when command-line identifiers were supplied: no cookie
\* resolution, no request-option setup, no extraction or download call.
C15_FileOpenFailure ==
  fileFlag = "unopenable" =>
    /\ reqOptions = <<>>
    /\ calls = <<>>
    /\ \A i \in 1..Len(fsOps) : fsOps[i] = "open"
    /\ cookie = <<>>
    /\ pc \in {"start", "done"}
    /\ (pc = "done" => ret = ErrOpen)

C15_Witness ==
  /\ pc = "done"
  /\ fileFlag = "unopenable"
  /\ cliArgs # <<>>
  /\ cookieFlag # <<>>
  /\ ret = ErrOpen

\* the run is inside the batch loop (lines 245-256)
InBatch == pc \in {"loop", "extract", "encode", "items", "report"}

\* C16: the request options are set exactly once, after all precondition
\* checks and before the first extraction call, and processing a target leaves
\* the work list, the resolved cookie, the installed options and the flag
\* values unchanged.
C16_ConfigReadOnly ==
  /\ [](/\ Len(reqOptions) <= 1
        /\ (reqOptions # <<>> => pc \notin {"start", "checkArgs", "cookie", "setOptions"}
                                 /\ ret \notin {ErrOpen, ErrTooFew, ErrRead}
                                 /\ Len(args) >= 1)
        /\ (InBatch \/ BatchDone => Len(reqOptions) = 1)
        /\ (calls # <<>> => Len(reqOptions) = 1))
  /\ [][InBatch => /\ args' = args
                   /\ cookie' = cookie
                   /\ reqOptions' = reqOptions
                   /\ flags' = flags]_vars

C16_Witness ==
  /\ BatchDone
  /\ Len(args) = 2
  /\ Len(reqOptions) = 1
  /\ isErr
  /\ cookieFlag # <<>>
  /\ cookie # cookieFlag

\* the result of the encode call made for position p (Nil when none was made)
EncodeResult(p) ==
  LET S == {j \in 1..Len(EncodeCalls) : EncodeCalls[j].pos = p}
  IN IF S = {} THEN Nil ELSE EncodeCalls[CHOOSE j \in S : TRUE].res

\* C17: in JSON mode a target's outcome depends only on the extraction call
\* and the serialization call: errors carried by the extracted items are not
\* inspected, so a target whose items all carry errors succeeds (no
\* diagnostic, no exit status 1) when extraction and serialization succeed.
C17_JsonIgnoresItemErrors ==
  jsonFlag =>
    /\ \A p \in 1..Len(returned) :
         /\ returned[p] = IF ExtractCalls[p].res # Nil THEN ExtractCalls[p].res
                          ELSE EncodeResult(p)
         /\ (returned[p] = Nil => ~Diagnosed(p))
    /\ (BatchDone /\ (\A i \in 1..Len(calls) : calls[i].res = Nil) => ret = Nil /\ diags = <<>>)

C17_Witness ==
  /\ BatchDone
  /\ jsonFlag
  /\ Len(args) = 1
  /\ ExtractCalls[1].data = <<"bad", "bad">>
  /\ returned[1] = Nil
  /\ diags = <<>>
  /\ ret = Nil

\* C18: the failure verdict is monotone: it starts false, is true from the
\* first failing target on, is never reset, and always equals 'some already
\* processed target failed'.
C18_VerdictMonotone ==
  /\ [](isErr <=> \E p \in 1..Len(returned) : returned[p] # Nil)
  /\ [](returned = <<>> => ~isErr)
  /\ [][isErr => isErr']_vars

C18_Witness ==
  /\ BatchDone
  /\ Len(args) = 2
  /\ returned[1] # Nil
  /\ returned[2] = Nil
  /\ isErr

RECURSIVE ValidItemCount(_)
\* the number of error-free items over the first n extract calls that succeeded
ValidItemCount(n) ==
  IF n = 0 THEN 0
  ELSE ValidItemCount(n - 1)
       + (IF ExtractCalls[n].res = Nil THEN Len(ValidItems(ExtractCalls[n].data)) ELSE 0)

\* C19: provided every collaborator call returns, the run terminates, having
\* made exactly one extraction call per work-list position and, in download
\* mode, exactly as many download calls as there are error-free items over
\* the targets whose extraction succeeded; no call is retried or repeated.
C19_Terminates ==
  /\ <>(pc = "done")
  /\ [](BatchDone =>
          /\ Len(ExtractCalls) = Len(WorkList)
          /\ (~jsonFlag => Len(DownloadCalls) = ValidItemCount(Len(ExtractCalls)))
          /\ \A i, j \in 1..Len(calls) :
               (calls[i].op = calls[j].op /\ calls[i].pos = calls[j].pos
                  /\ calls[i].item = calls[j].item) => i = j)

C19_Witness ==
  /\ BatchDone
  /\ ~jsonFlag
  /\ Len(args) = 2
  /\ Len(ExtractCalls) = 2
  /\ ExtractCalls[1].data = <<"ok", "bad">>
  /\ PreparationFailed(2)
  /\ Len(DownloadCalls) = 1
  /\ DownloadCalls[1].res # Nil

\* C20: the fatal precondition checks are ordered input-file open, then the
\* empty-work-list check, then cookie resolution: with an empty work list the
\* run fails with the too-few-arguments error without a stat or read of the
\* cookie file, even when that file would be unreadable.
C20_CheckOrder ==
  /\ \A i \in 1..Len(fsOps) : fsOps[i] = "open" => i = 1
  /\ (ret = ErrOpen => fsOps = <<"open">>)
  /\ (ret = ErrTooFew => \A i \in 1..Len(fsOps) : fsOps[i] = "open")
  /\ (ret = ErrRead => Len(args) >= 1)
  /\ (fileFlag # "unopenable" /\ WorkList = <<>> =>
        /\ \A i \in 1..Len(fsOps) : fsOps[i] \notin {"stat", "read"}
        /\ (pc = "done" => ret = ErrTooFew))

C20_Witness ==
  /\ pc = "done"
  /\ fileFlag = "ok"
  /\ WorkList = <<>>
  /\ cookieFlag # <<>>
  /\ fsKind = "unreadable"
  /\ ret = ErrTooFew
  /\ fsOps = <<"open">>

====
